---- MODULE Spec2Model ----
(***************************************************************************)
(* NutriTrack: the persistence contract of the nutrition tracker.          *)
(*                                                                         *)
(* State: the hosted table (remote), the local file data/food_log.csv      *)
(* (csv), the backup file written by the export (backup), the History      *)
(* tab's session (the loaded DataFrame df, the selected range, the         *)
(* editing_meal flag), and the outcome of the last operation (last).       *)
(*                                                                         *)
(* A timestamp is an instant 0 .. MaxInstant; its calendar date is         *)
(* instant \div TimesPerDay.  A 'YYYY-MM-DD HH:MM:SS' string is the        *)
(* instant it denotes, a 'YYYY-MM-DD' string the day it denotes, an        *)
(* unparsable string is NaT.                                               *)
(*                                                                         *)
(* Every remote call may fail on its own: each handler draws one flag per  *)
(* remote call it makes.  Whether the remote configuration is present is   *)
(* fixed for a run (the environment is read once, the manager is cached).  *)
(***************************************************************************)
EXTENDS Integers, Sequences, FiniteSets, TLC

\* ------------------------------------------------------------------ bounds
\* Instants are 0..MaxInstant, TimesPerDay of them to a calendar day.
MaxInstant == 3
TimesPerDay == 2
\* The most rows the table and the local file hold, and the last id assigned.
MaxRows == 2
MaxId == 3

Instants == 0..MaxInstant
Days == 0..(MaxInstant \div TimesPerDay)

\* A missing value: a NULL column, a NaN cell, Python's None.
Null == 0 - 1
\* pd.NaT: what an unparsable timestamp string parses to.
NaT == 0 - 2

\* st.text_input("Food Name") and the two number inputs: two meals.
Oatmeal == [food_name |-> "Oatmeal", calories |-> 300, protein |-> 10]
ChickenSalad == [food_name |-> "Chicken Salad", calories |-> 450, protein |-> 35]

\* What the user types into the Log Entry form, and into a row being edited.
Meals == {Oatmeal}
EditedMeals == {ChickenSalad}
\* What the user leaves in the timestamp box of a row being edited.
EditedTexts == {MaxInstant, NaT}

Columns == {"id", "datetime", "date", "food_name", "calories", "protein"}

\* ------------------------------------------------------------ conversions
\* Timestamp.strftime('%Y-%m-%d'): the calendar date of an instant.
strftime_date(ts) == ts \div TimesPerDay

\* pd.to_datetime of a 'YYYY-MM-DD' string: midnight of that day.
to_datetime_date(d) == d * TimesPerDay

\* pd.to_datetime(text, errors="coerce") of the edited timestamp text.
to_datetime_coerce(text) == IF text \in Instants THEN text ELSE NaT

\* Python truthiness of a cell used as `if entry_id:` (NaN is truthy, 0 is not).
Truthy(v) == v # 0

\* ------------------------------------------------------------- sequences
RECURSIVE SelectRows(_, _)
SelectRows(s, keep) ==
  IF s = <<>> THEN <<>>
  ELSE IF s[1] \in keep THEN <<s[1]>> \o SelectRows(Tail(s), keep)
       ELSE SelectRows(Tail(s), keep)

\* df.tail(k)
DfTail(s, k) == SubSeq(s, Len(s) - k + 1, Len(s))

\* df.head(k)
DfHead(s, k) == SubSeq(s, 1, IF k < Len(s) THEN k ELSE Len(s))

RowSet(s) == { s[i] : i \in 1..Len(s) }

\* Insert row r into a sequence ordered by datetime descending, after its ties.
RECURSIVE InsertDesc(_, _)
InsertDesc(s, r) ==
  IF s = <<>> THEN <<r>>
  ELSE IF s[1].datetime >= r.datetime THEN <<s[1]>> \o InsertDesc(Tail(s), r)
       ELSE <<r>> \o s

\* .order("datetime", desc=True): rows by datetime descending (ties in table order).
RECURSIVE OrderDesc(_)
OrderDesc(s) ==
  IF s = <<>> THEN <<>>
  ELSE InsertDesc(OrderDesc(SubSeq(s, 1, Len(s) - 1)), s[Len(s)])

VARIABLES configured, remote, nextId, csv, backup, df, range, editing_meal, last

vars == <<configured, remote, nextId, csv, backup, df, range, editing_meal, last>>

\* The outcome record of an operation that has not set anything.
Blank ==
  [ op |-> "init", msgs |-> {}, raised |-> FALSE, ret |-> Null, id |-> Null,
    entry |-> <<>>, inserts |-> 0, writes |-> 0, inserted |-> 0,
    failed |-> FALSE, outage |-> FALSE, result |-> <<>>, found |-> FALSE,
    unparsable |-> FALSE, totals |-> <<>>, saved |-> <<>>, reachable |-> FALSE ]

\* ----------------------------------------------------- SupabaseManager
\* The row the table stores for an inserted dict: the id is assigned, a key the
\* dict lacks is NULL.
StoredRow(nid, entry) ==
  [ c \in Columns |->
      IF c = "id" THEN nid
      ELSE IF c \in DOMAIN entry THEN entry[c] ELSE Null ]

\* The two normalisations at the head of insert_entry and update_entry:
\* pd.to_datetime(...).strftime(...) raises on an unparsable or NaN value.
NormalizeRaises(d) ==
  \/ ("datetime" \in DOMAIN d /\ d.datetime \notin Instants)
  \/ ("date" \in DOMAIN d /\ d.date \notin Days)

Normalize(d) ==
  [ k \in DOMAIN d |->
      IF k = "date" THEN strftime_date(to_datetime_date(d[k])) ELSE d[k] ]

\* insert_entry(entry); up: the remote call succeeds.
insert_entry(tbl, nid, entry, up) ==
  IF NormalizeRaises(entry) \/ ~up
  THEN [raised |-> TRUE, table |-> tbl, nextId |-> nid]
  ELSE [raised |-> FALSE,
        table |-> Append(tbl, StoredRow(nid, Normalize(entry))),
        nextId |-> nid + 1]

\* get_all_entries() letting the failed call's exception out, as insert_entry does.
get_all_entries_reraising(tbl, up) ==
  IF up THEN [raised |-> FALSE, data |-> OrderDesc(tbl)]
  ELSE [raised |-> TRUE, data |-> <<>>]

\* get_all_entries(); a failed call is swallowed and yields [].
get_all_entries(tbl, up) ==
  IF up THEN [raised |-> FALSE, data |-> OrderDesc(tbl)]
  ELSE [raised |-> FALSE, data |-> <<>>]

\* get_entries_for_today(); today is datetime.now()'s date.
get_entries_for_today(tbl, today, up) ==
  IF up
  THEN [raised |-> FALSE,
        data |-> OrderDesc(SelectRows(tbl, {r \in RowSet(tbl) : r.date = today}))]
  ELSE [raised |-> FALSE, data |-> <<>>]

\* get_entries_by_date_range with .lt in place of .lte on the end date.
get_entries_by_date_range_exclusive_end(tbl, start_date, end_date, up) ==
  IF up
  THEN [raised |-> FALSE,
        data |-> OrderDesc(SelectRows(tbl,
                   {r \in RowSet(tbl) : r.date # Null /\ r.date >= start_date
                                          /\ r.date < end_date}))]
  ELSE [raised |-> FALSE, data |-> <<>>]

\* get_entries_by_date_range(start_date, end_date)
get_entries_by_date_range(tbl, start_date, end_date, up) ==
  IF up
  THEN [raised |-> FALSE,
        data |-> OrderDesc(SelectRows(tbl,
                   {r \in RowSet(tbl) : r.date # Null /\ r.date >= start_date
                                          /\ r.date <= end_date}))]
  ELSE [raised |-> FALSE, data |-> <<>>]

\* The table with the fields of `updates` written into the rows whose id matches.
ApplyUpdate(tbl, entry_id, updates) ==
  [ i \in 1..Len(tbl) |->
      IF tbl[i].id = entry_id
      THEN [ c \in Columns |-> IF c \in DOMAIN updates THEN updates[c] ELSE tbl[i][c] ]
      ELSE tbl[i] ]

HasId(tbl, entry_id) == \E i \in 1..Len(tbl) : tbl[i].id = entry_id

\* update_entry sending the dict's other fields before it normalises the timestamp.
update_entry_apply_then_validate(tbl, entry_id, updates, up) ==
  LET others == [ k \in DOMAIN updates \ {"datetime", "date"} |-> updates[k] ]
  IN IF ~up THEN [raised |-> TRUE, table |-> tbl, ret |-> Null]
     ELSE IF NormalizeRaises(updates)
          THEN [raised |-> TRUE, table |-> ApplyUpdate(tbl, entry_id, others),
                ret |-> Null]
          ELSE IF HasId(tbl, entry_id)
               THEN [raised |-> FALSE,
                     table |-> ApplyUpdate(tbl, entry_id, Normalize(updates)),
                     ret |-> 1]
               ELSE [raised |-> FALSE, table |-> tbl, ret |-> Null]

\* update_entry(entry_id, updates): ret 1 is the updated row, Null is None.
update_entry(tbl, entry_id, updates, up) ==
  IF NormalizeRaises(updates) \/ ~up
  THEN [raised |-> TRUE, table |-> tbl, ret |-> Null]
  ELSE IF HasId(tbl, entry_id)
       THEN [raised |-> FALSE, table |-> ApplyUpdate(tbl, entry_id, Normalize(updates)),
             ret |-> 1]
       ELSE [raised |-> FALSE, table |-> tbl, ret |-> Null]

\* delete_entry(entry_id): ret 1 is True, 0 is False; a failed call is swallowed.
delete_entry(tbl, entry_id, up) ==
  IF ~up THEN [raised |-> FALSE, table |-> tbl, ret |-> 0]
  ELSE IF HasId(tbl, entry_id)
       THEN [raised |-> FALSE,
             table |-> SelectRows(tbl, {r \in RowSet(tbl) : r.id # entry_id}),
             ret |-> 1]
       ELSE [raised |-> FALSE, table |-> tbl, ret |-> 0]

\* The dict built from a DataFrame row by save_data and sync_from_csv.
EntryOfRow(row) ==
  [ datetime |-> row.datetime, date |-> row.date, food_name |-> row.food_name,
    calories |-> row.calories, protein |-> row.protein ]

\* A loop of insert_entry calls over rows, in order; the failAt-th call fails
\* (0: none does) and the exception ends the loop.
RECURSIVE InsertLoop(_, _, _, _, _)
InsertLoop(tbl, nid, rows, failAt, done) ==
  IF rows = <<>>
  THEN [raised |-> FALSE, table |-> tbl, nextId |-> nid, attempts |-> done,
        inserted |-> done]
  ELSE LET r == insert_entry(tbl, nid, EntryOfRow(rows[1]), failAt # done + 1)
       IN IF r.raised
          THEN [raised |-> TRUE, table |-> tbl, nextId |-> nid,
                attempts |-> done + 1, inserted |-> done]
          ELSE InsertLoop(r.table, r.nextId, Tail(rows), failAt, done + 1)

\* ------------------------------------------------------------ utils.py
\* get_supabase_manager(): SupabaseManager() raises ValueError when the URL
\* or the key is not set; once built, the instance is cached.
get_supabase_manager_raises == ~configured

\* pd.read_csv of the local file followed by the two column conversions.
read_csv(file) == file.rows

\* df.to_csv(path, index=False): the file is replaced by the frame's rows.
to_csv(d) == [exists |-> TRUE, rows |-> d]

NoFile == [exists |-> FALSE, rows |-> <<>>]

\* load_data(): all remote entries; on an exception the local file, if any.
load_data(tbl, file, up) ==
  LET g == get_all_entries(tbl, up)
  IN IF get_supabase_manager_raises \/ g.raised
     THEN (IF file.exists THEN read_csv(file) ELSE <<>>)
     ELSE g.data

\* load_today_data(): no file fallback.
load_today_data(tbl, today, up) ==
  LET g == get_entries_for_today(tbl, today, up)
  IN IF get_supabase_manager_raises \/ g.raised THEN <<>> ELSE g.data

\* load_history_data(start_date, end_date): no file fallback.
load_history_data(tbl, start_date, end_date, up) ==
  LET g == get_entries_by_date_range(tbl, start_date, end_date, up)
  IN IF get_supabase_manager_raises \/ g.raised THEN <<>> ELSE g.data

\* save_data(d): insert the rows of d beyond the remote count; on an exception
\* write d to the local file.  ret 1 is True, 0 is False; reachable: the read and
\* every insert of the call succeeded.
save_data(tbl, nid, file, d, up, failAt) ==
  LET g == get_all_entries(tbl, up)
      existing_count == Len(g.data)
      new_entries == IF Len(d) > existing_count
                     THEN DfTail(d, Len(d) - existing_count) ELSE <<>>
      loop == InsertLoop(tbl, nid, new_entries, failAt, 0)
  IN IF get_supabase_manager_raises \/ g.raised
     THEN [ret |-> 0, table |-> tbl, nextId |-> nid, file |-> to_csv(d),
           attempts |-> 0, inserted |-> 0, writes |-> 1, reachable |-> FALSE]
     ELSE IF loop.raised
          THEN [ret |-> 0, table |-> loop.table, nextId |-> loop.nextId,
                file |-> to_csv(d), attempts |-> loop.attempts,
                inserted |-> loop.inserted, writes |-> 1, reachable |-> FALSE]
          ELSE [ret |-> 1, table |-> loop.table, nextId |-> loop.nextId,
                file |-> file, attempts |-> loop.attempts,
                inserted |-> loop.inserted, writes |-> 0, reachable |-> up]

\* The normalisation of the date column at the head of calculate_daily_totals:
\* a date stays the date it is, a missing one becomes NaT.
to_date(v) == IF v \in Days THEN v ELSE NaT

\* A step of the aggregation with 'last' in place of 'sum'.
AggLast(acc, r) ==
  LET k == to_date(r.date)
  IN [ x \in DOMAIN acc \cup {k} |->
         IF x = k THEN [calories |-> r.calories, protein |-> r.protein]
         ELSE acc[x] ]

\* One step of the aggregation: row r added to the running sums of its group.
AggSum(acc, r) ==
  LET k == to_date(r.date)
  IN [ x \in DOMAIN acc \cup {k} |->
         IF x = k
         THEN (IF k \in DOMAIN acc
               THEN [calories |-> acc[k].calories + r.calories,
                     protein |-> acc[k].protein + r.protein]
               ELSE [calories |-> r.calories, protein |-> r.protein])
         ELSE acc[x] ]

\* df.groupby('date').agg(...) over rows i..Len(d); a row whose key is NaT
\* belongs to no group (dropna).
RECURSIVE GroupByAgg(_, _, _)
GroupByAgg(d, i, acc) ==
  IF i > Len(d) THEN acc
  ELSE IF to_date(d[i].date) = NaT THEN GroupByAgg(d, i + 1, acc)
       ELSE GroupByAgg(d, i + 1, AggSum(acc, d[i]))

\* calculate_daily_totals(d): {} for an empty frame, else the dict of the groups.
calculate_daily_totals(d) ==
  IF d = <<>> THEN <<>> ELSE GroupByAgg(d, 1, <<>>)

\* SupabaseManager.sync_from_csv(path): raises on a missing file or a failed insert.
sync_from_csv(tbl, nid, file, failAt) ==
  IF ~file.exists
  THEN [raised |-> TRUE, table |-> tbl, nextId |-> nid, ret |-> Null, inserted |-> 0]
  ELSE LET loop == InsertLoop(tbl, nid, read_csv(file), failAt, 0)
       IN [raised |-> loop.raised, table |-> loop.table, nextId |-> loop.nextId,
           ret |-> IF loop.raised THEN Null ELSE loop.inserted,
           inserted |-> loop.inserted]

\* sync_csv_to_supabase(path): the count, or 0 on any exception.
sync_csv_to_supabase(tbl, nid, file, failAt) ==
  LET s == sync_from_csv(tbl, nid, file, failAt)
  IN IF get_supabase_manager_raises
     THEN [ret |-> 0, table |-> tbl, nextId |-> nid, inserted |-> 0]
     ELSE IF s.raised
          THEN [ret |-> 0, table |-> s.table, nextId |-> s.nextId,
                inserted |-> s.inserted]
          ELSE [ret |-> s.ret, table |-> s.table, nextId |-> s.nextId,
                inserted |-> s.inserted]

\* SupabaseManager.export_to_csv(path): ret 1 is True.
export_to_csv(tbl, up) ==
  LET g == get_all_entries(tbl, up)
  IN IF g.raised THEN [ret |-> 0, wrote |-> FALSE, file |-> NoFile]
     ELSE [ret |-> 1, wrote |-> TRUE, file |-> to_csv(g.data)]

\* export_supabase_to_csv(path)
export_supabase_to_csv(tbl, up) ==
  IF get_supabase_manager_raises
  THEN [ret |-> 0, wrote |-> FALSE, file |-> NoFile]
  ELSE export_to_csv(tbl, up)

\* ------------------------------------------------------------- main.py
\* The History tab's view of the loaded frame: the mask on the full timestamp,
\* the descending sort and head(5); the result is the displayed index labels.
HeadRows == 5

RECURSIVE MaskIdx(_, _, _)
MaskIdx(d, rg, i) ==
  IF i > Len(d) THEN <<>>
  ELSE IF d[i].datetime >= rg.start /\ d[i].datetime <= rg.end
       THEN <<i>> \o MaskIdx(d, rg, i + 1)
       ELSE MaskIdx(d, rg, i + 1)

RECURSIVE InsertIdxDesc(_, _, _)
InsertIdxDesc(d, s, i) ==
  IF s = <<>> THEN <<i>>
  ELSE IF d[s[1]].datetime >= d[i].datetime
       THEN <<s[1]>> \o InsertIdxDesc(d, Tail(s), i)
       ELSE <<i>> \o s

RECURSIVE SortIdxDesc(_, _)
SortIdxDesc(d, s) ==
  IF s = <<>> THEN <<>>
  ELSE InsertIdxDesc(d, SortIdxDesc(d, SubSeq(s, 1, Len(s) - 1)), s[Len(s)])

\* filtered_df = df.loc[mask]
filtered_df(d, rg) ==
  LET keep == MaskIdx(d, rg, 1) IN [ i \in 1..Len(keep) |-> d[keep[i]] ]

sorted_df(d, rg) == DfHead(SortIdxDesc(d, MaskIdx(d, rg, 1)), HeadRows)

Displayed(d, rg) == RowSet(sorted_df(d, rg))

\* The reload of the History tab at the start of a script run (st.rerun()).
Reload(tbl, rg, up) ==
  load_history_data(tbl, strftime_date(rg.start), strftime_date(rg.end), up)

\* The frame row of a dict that has no id column.
RowOfEntry(entry) == StoredRow(Null, entry)

\* df.loc[idx, ...] = ... of the Save fallback.
DfSet(d, idx, updates) ==
  [ i \in 1..Len(d) |->
      IF i = idx
      THEN [ c \in Columns |-> IF c \in DOMAIN updates THEN updates[c] ELSE d[i][c] ]
      ELSE d[i] ]

\* df.drop(idx)
DfDrop(d, idx) == SubSeq(d, 1, idx - 1) \o SubSeq(d, idx + 1, Len(d))

\* The "Add Entry" button.  up1: the handler's insert succeeds; r1: load_data's
\* read; r2: save_data's read; failAt: which of save_data's inserts fails.
AddEntryResult(tbl, nid, file, meal, ts, up1, r1, r2, failAt) ==
  LET new_entry == [ datetime |-> ts, date |-> strftime_date(ts),
                     food_name |-> meal.food_name, calories |-> meal.calories,
                     protein |-> meal.protein ]
      valid == meal.food_name # "" /\ meal.calories >= 0 /\ meal.protein >= 0
      first == insert_entry(tbl, nid, new_entry, up1)
      d == load_data(tbl, file, r1) \o <<RowOfEntry(new_entry)>>
      sv == save_data(tbl, nid, file, d, r2, failAt)
      out == [Blank EXCEPT !.op = "add", !.entry = new_entry]
  IN IF ~valid
     THEN [table |-> tbl, nextId |-> nid, file |-> file,
           last |-> [out EXCEPT !.op = "add_invalid",
                                !.msgs = {"Please fill in all fields correctly."}]]
     ELSE IF ~get_supabase_manager_raises /\ ~first.raised
          THEN [table |-> first.table, nextId |-> first.nextId, file |-> file,
                last |-> [out EXCEPT !.msgs = {"Entry added successfully to Supabase!"},
                                     !.inserts = 1, !.inserted = 1]]
          ELSE [table |-> sv.table, nextId |-> sv.nextId, file |-> sv.file,
                last |-> [out EXCEPT
                   !.msgs = {"Error saving to Supabase",
                             "Entry added successfully (saved to CSV as fallback)!"},
                   !.ret = sv.ret,
                   !.failed = TRUE,
                   !.outage = (~up1 /\ ~r1 /\ ~r2 /\ sv.ret = 0),
                   !.inserts = (IF get_supabase_manager_raises THEN 0 ELSE 1)
                               + sv.attempts,
                   !.inserted = sv.inserted,
                   !.writes = sv.writes,
                   !.saved = d,
                   !.reachable = sv.reachable]]

InvalidMeal == [food_name |-> "", calories |-> 0, protein |-> 0]

\* The flags of the remote calls an "Add Entry" run does not reach are fixed, so
\* that one run is drawn once.
AddEntry ==
  \E meal \in Meals \cup {InvalidMeal}, ts \in Instants,
     up1 \in BOOLEAN, r1 \in BOOLEAN, r2 \in BOOLEAN, failAt \in 0..(MaxRows + 1),
     rr \in BOOLEAN :
    LET a == AddEntryResult(remote, nextId, csv, meal, ts, up1, r1, r2, failAt)
    IN /\ configured \/ (~up1 /\ ~r1 /\ ~r2 /\ failAt = 0 /\ ~rr)
       /\ a.last.op = "add_invalid" => (~up1 /\ ~r1 /\ ~r2 /\ failAt = 0 /\ ~rr)
       /\ ~a.last.failed => (~r1 /\ ~r2 /\ failAt = 0)
       /\ failAt <= a.last.inserts
       /\ Len(a.table) <= MaxRows
       /\ Len(a.file.rows) <= MaxRows
       /\ a.nextId <= MaxId + 1
       /\ remote' = a.table
       /\ nextId' = a.nextId
       /\ csv' = a.file
       /\ last' = a.last
       /\ df' = IF a.last.op = "add" THEN Reload(a.table, range, rr) ELSE df
       /\ UNCHANGED <<configured, backup, range, editing_meal>>

\* sync_csv_to_supabase() on the local file; failAt: which insert fails.
SyncCsv ==
  \E failAt \in 0..MaxRows :
    LET r == sync_csv_to_supabase(remote, nextId, csv, failAt)
    IN /\ failAt <= Len(csv.rows)
       /\ configured \/ failAt = 0
       /\ Len(r.table) <= MaxRows
       /\ r.nextId <= MaxId + 1
       /\ remote' = r.table
       /\ nextId' = r.nextId
       /\ last' = [Blank EXCEPT !.op = "sync", !.ret = r.ret,
                                !.inserted = r.inserted,
                                !.failed = (failAt # 0),
                                !.result = (IF csv.exists THEN read_csv(csv) ELSE <<>>)]
       /\ UNCHANGED <<configured, csv, backup, df, range, editing_meal>>

\* export_supabase_to_csv() to the backup file; up: the read succeeds.
ExportCsv ==
  \E up \in BOOLEAN :
    LET r == export_supabase_to_csv(remote, up)
    IN /\ configured \/ ~up
       /\ backup' = IF r.wrote THEN r.file ELSE backup
       /\ last' = [Blank EXCEPT !.op = "export", !.ret = r.ret,
                                !.failed = (configured /\ ~up),
                                !.result = (IF backup.exists THEN backup.rows ELSE <<>>)]
       /\ UNCHANGED <<configured, remote, nextId, csv, df, range, editing_meal>>

\* load_fresh_data() -> load_data()
LoadData ==
  \E up \in BOOLEAN :
    /\ configured \/ ~up
    /\ last' = [Blank EXCEPT !.op = "load_data", !.failed = (configured /\ ~up),
                             !.result = load_data(remote, csv, up)]
    /\ UNCHANGED <<configured, remote, nextId, csv, backup, df, range, editing_meal>>

\* The Dashboard tab: load_today_data(); today is datetime.now()'s date.
LoadToday ==
  \E up \in BOOLEAN, today \in Days :
    /\ configured \/ ~up
    /\ last' = [Blank EXCEPT !.op = "load_today", !.failed = (configured /\ ~up),
                             !.id = today,
                             !.result = load_today_data(remote, today, up)]
    /\ UNCHANGED <<configured, remote, nextId, csv, backup, df, range, editing_meal>>

\* The date ranges the History tab's four inputs are set to.
Ranges == { [start |-> a, end |-> b] : a \in Instants, b \in Instants }

\* A script run of the History tab with the range inputs set: load_history_data.
RenderHistory ==
  \E rg \in Ranges, up \in BOOLEAN :
    /\ configured \/ ~up
    /\ range' = rg
    /\ df' = Reload(remote, rg, up)
    /\ last' = [Blank EXCEPT !.op = "load_history", !.failed = (configured /\ ~up),
                             !.result = Reload(remote, rg, up)]
    /\ UNCHANGED <<configured, remote, nextId, csv, backup, editing_meal>>

\* The sidebar's "Refresh Data" button: st.rerun() with the inputs as they are.
RefreshClick ==
  \E up \in BOOLEAN :
    /\ configured \/ ~up
    /\ df' = Reload(remote, range, up)
    /\ last' = [Blank EXCEPT !.op = "refresh", !.failed = (configured /\ ~up)]
    /\ UNCHANGED <<configured, remote, nextId, csv, backup, range, editing_meal>>

\* The "✏️" button of a displayed row that is not being edited.
EditClick ==
  \E idx \in Displayed(df, range), rr \in BOOLEAN :
    /\ editing_meal # idx
    /\ editing_meal' = idx
    /\ df' = Reload(remote, range, rr)
    /\ last' = [Blank EXCEPT !.op = "edit", !.id = idx]
    /\ UNCHANGED <<configured, remote, nextId, csv, backup, range>>

\* The "Cancel" button of the row being edited.
CancelClick ==
  \E idx \in Displayed(df, range), rr \in BOOLEAN :
    /\ editing_meal = idx
    /\ editing_meal' = Null
    /\ df' = Reload(remote, range, rr)
    /\ last' = [Blank EXCEPT !.op = "cancel", !.id = idx]
    /\ UNCHANGED <<configured, remote, nextId, csv, backup, range>>

\* The "Save" button of the row being edited.  text: the edited timestamp text;
\* up: update_entry's call succeeds; r2, failAt: save_data's read and inserts.
SaveResult(tbl, nid, file, d, idx, meal, text, up, r2, failAt) ==
  LET parsed_dt == to_datetime_coerce(text)
      updates == [ food_name |-> meal.food_name, datetime |-> parsed_dt,
                   date |-> strftime_date(parsed_dt), calories |-> meal.calories,
                   protein |-> meal.protein ]
      entry_id == d[idx].id
      u == update_entry(tbl, entry_id, updates, up)
      sv == save_data(tbl, nid, file, DfSet(d, idx, updates), r2, failAt)
      out == [Blank EXCEPT !.op = "save", !.id = entry_id,
                           !.found = HasId(tbl, entry_id)]
  IN IF parsed_dt = NaT
     THEN [table |-> tbl, nextId |-> nid, file |-> file, rerun |-> FALSE,
           last |-> [out EXCEPT !.op = "save_rejected", !.unparsable = TRUE,
                       !.msgs = {"Invalid datetime format. Use YYYY-MM-DD HH:MM:SS"}]]
     ELSE IF get_supabase_manager_raises \/ (Truthy(entry_id) /\ u.raised)
          THEN [table |-> sv.table, nextId |-> sv.nextId, file |-> sv.file,
                rerun |-> TRUE,
                last |-> [out EXCEPT !.msgs = {"Error updating in Supabase"},
                                     !.failed = TRUE, !.ret = sv.ret,
                                     !.inserts = sv.attempts,
                                     !.inserted = sv.inserted,
                                     !.writes = sv.writes,
                                     !.saved = DfSet(d, idx, updates),
                                     !.reachable = sv.reachable]]
          ELSE IF Truthy(entry_id)
               THEN [table |-> u.table, nextId |-> nid, file |-> file, rerun |-> TRUE,
                     last |-> [out EXCEPT !.msgs = {"Entry updated in Supabase!"},
                                          !.ret = u.ret]]
               ELSE [table |-> tbl, nextId |-> nid, file |-> file, rerun |-> TRUE,
                     last |-> [out EXCEPT !.msgs = {"Cannot update: missing entry ID"}]]

SaveClick ==
  \E idx \in Displayed(df, range), meal \in EditedMeals, text \in EditedTexts,
     up \in BOOLEAN, r2 \in BOOLEAN, failAt \in 0..MaxRows, rr \in BOOLEAN :
    LET a == SaveResult(remote, nextId, csv, df, idx, meal, text, up, r2, failAt)
    IN /\ editing_meal = idx
       /\ ~a.rerun => (up /\ ~r2 /\ failAt = 0 /\ ~rr)
       /\ ~a.last.failed => (~r2 /\ failAt = 0)
       /\ failAt <= a.last.inserts
       /\ Len(a.table) <= MaxRows
       /\ a.nextId <= MaxId + 1
       /\ remote' = a.table
       /\ nextId' = a.nextId
       /\ csv' = a.file
       /\ last' = a.last
       /\ editing_meal' = IF a.rerun THEN Null ELSE editing_meal
       /\ df' = IF a.rerun THEN Reload(a.table, range, rr) ELSE df
       /\ UNCHANGED <<configured, backup, range>>

\* The "🗑️" button of a displayed row that is not being edited.
DeleteResult(tbl, nid, file, d, idx, editing, up, r2, failAt) ==
  LET entry_id == d[idx].id
      del == delete_entry(tbl, entry_id, up)
      sv == save_data(tbl, nid, file, DfDrop(d, idx), r2, failAt)
      out == [Blank EXCEPT !.op = "delete", !.id = entry_id,
                           !.found = HasId(tbl, entry_id)]
  IN IF editing # Null
     THEN [table |-> tbl, nextId |-> nid, file |-> file, rerun |-> FALSE,
           last |-> [out EXCEPT !.op = "delete_blocked"]]
     ELSE IF get_supabase_manager_raises \/ (Truthy(entry_id) /\ del.raised)
          THEN [table |-> sv.table, nextId |-> sv.nextId, file |-> sv.file,
                rerun |-> TRUE,
                last |-> [out EXCEPT !.msgs = {"Error deleting from Supabase"},
                                     !.failed = TRUE, !.ret = sv.ret,
                                     !.inserts = sv.attempts,
                                     !.inserted = sv.inserted,
                                     !.writes = sv.writes,
                                     !.saved = DfDrop(d, idx),
                                     !.reachable = sv.reachable]]
          ELSE IF Truthy(entry_id)
               THEN [table |-> del.table, nextId |-> nid, file |-> file,
                     rerun |-> TRUE,
                     last |-> [out EXCEPT !.msgs = {"Entry deleted from Supabase!"},
                                          !.ret = del.ret, !.failed = ~up]]
               ELSE [table |-> tbl, nextId |-> nid, file |-> file, rerun |-> TRUE,
                     last |-> [out EXCEPT !.msgs = {"Cannot delete: missing entry ID"}]]

DeleteClick ==
  \E idx \in Displayed(df, range), up \in BOOLEAN, rr \in BOOLEAN :
    LET a == DeleteResult(remote, nextId, csv, df, idx, editing_meal, up, FALSE, 0)
    IN /\ editing_meal # idx
       /\ ~a.rerun => (up /\ ~rr)
       /\ remote' = a.table
       /\ nextId' = a.nextId
       /\ csv' = a.file
       /\ last' = a.last
       /\ df' = IF a.rerun THEN Reload(a.table, range, rr) ELSE df
       /\ UNCHANGED <<configured, backup, range, editing_meal>>

\* A caller of calculate_daily_totals on the frame it holds.
DailyTotals ==
  /\ last' = [Blank EXCEPT !.op = "totals", !.totals = calculate_daily_totals(df)]
  /\ UNCHANGED <<configured, remote, nextId, csv, backup, df, range, editing_meal>>

\* ------------------------------------------- direct SupabaseManager calls
\* The dicts a caller passes to insert_entry.
InsertDicts ==
  { [datetime |-> t, food_name |-> "Oatmeal", calories |-> 300, protein |-> 10] :
      t \in Instants }
  \cup
  { [datetime |-> t, date |-> d, food_name |-> "Oatmeal", calories |-> 300,
     protein |-> 10] : t \in Instants, d \in Days }

\* The dicts a caller passes to update_entry.
UpdateDicts ==
  { [datetime |-> t] : t \in Instants \cup {NaT} }
  \cup { [datetime |-> t, date |-> d] : t \in Instants, d \in Days }
  \cup { [food_name |-> "Chicken Salad", datetime |-> NaT] }
  \cup { [food_name |-> "Chicken Salad"] }

InsertEntryCall ==
  \E entry \in InsertDicts, up \in BOOLEAN :
    LET r == insert_entry(remote, nextId, entry, up)
    IN /\ Len(r.table) <= MaxRows
       /\ r.nextId <= MaxId + 1
       /\ remote' = r.table
       /\ nextId' = r.nextId
       /\ last' = [Blank EXCEPT !.op = "insert_entry", !.raised = r.raised,
                                !.failed = ~up]
       /\ UNCHANGED <<configured, csv, backup, df, range, editing_meal>>

UpdateEntryWith(dicts) ==
  \E entry_id \in 1..MaxId, updates \in dicts, up \in BOOLEAN :
    LET r == update_entry(remote, entry_id, updates, up)
    IN /\ remote' = r.table
       /\ last' = [Blank EXCEPT !.op = "update_entry", !.raised = r.raised,
                                !.ret = r.ret,
                                !.found = HasId(remote, entry_id),
                                !.unparsable = NormalizeRaises(updates)]
       /\ UNCHANGED <<configured, nextId, csv, backup, df, range, editing_meal>>

UpdateEntryCall == UpdateEntryWith(UpdateDicts)

\* The dicts another session's "Save" passes, and one with an unparsable timestamp.
ClientDicts ==
  { [ food_name |-> "Chicken Salad", datetime |-> MaxInstant,
      date |-> strftime_date(MaxInstant), calories |-> 450, protein |-> 35 ],
    [ food_name |-> "Chicken Salad", datetime |-> NaT ] }

\* update_entry called by another client of the table.
ClientUpdate == UpdateEntryWith(ClientDicts)

DeleteEntryCall ==
  \E entry_id \in 1..MaxId, up \in BOOLEAN :
    LET r == delete_entry(remote, entry_id, up)
    IN /\ remote' = r.table
       /\ last' = [Blank EXCEPT !.op = "delete_entry", !.raised = r.raised,
                                !.ret = r.ret,
                                !.found = HasId(remote, entry_id)]
       /\ UNCHANGED <<configured, nextId, csv, backup, df, range, editing_meal>>

\* ------------------------------------------------------- specifications
\* A row as "Add Entry" stores it: the date is the timestamp's.
AddedRow(id, ts) ==
  [ id |-> id, datetime |-> ts, date |-> strftime_date(ts), food_name |-> "Oatmeal",
    calories |-> 300, protein |-> 10 ]

\* The tables that n successful "Add Entry" runs leave: ids 1..n in order.
RECURSIVE TablesOfLen(_, _)
TablesOfLen(n, stamps) ==
  IF n = 0 THEN {<<>>}
  ELSE { Append(t, AddedRow(n, ts)) : t \in TablesOfLen(n - 1, stamps), ts \in stamps }

Tables == UNION { TablesOfLen(n, Instants) : n \in 0..MaxRows }

\* The same, of entries logged at the first instant of a day.
MidnightTables ==
  UNION { TablesOfLen(n, {to_datetime_date(d) : d \in Days}) : n \in 0..MaxRows }

\* The local files that n fallback writes without a configuration leave.
RECURSIVE FilesOfLen(_)
FilesOfLen(n) ==
  IF n = 0 THEN {<<>>}
  ELSE { Append(t, AddedRow(Null, ts)) : t \in FilesOfLen(n - 1), ts \in Instants }

Files == {NoFile} \cup { to_csv(f) : f \in UNION { FilesOfLen(n) : n \in 1..MaxRows } }

Init ==
  /\ configured \in BOOLEAN
  /\ remote = <<>>
  /\ nextId = 1
  /\ csv = NoFile
  /\ backup = NoFile
  /\ df = <<>>
  /\ range = [start |-> 0, end |-> MaxInstant]
  /\ editing_meal = Null
  /\ last = Blank

\* A populated installation: the table and the local file hold earlier entries.
PopulatedInit ==
  /\ configured \in BOOLEAN
  /\ remote \in Tables
  /\ nextId = Len(remote) + 1
  /\ csv \in Files
  /\ backup = NoFile
  /\ df = <<>>
  /\ range = [start |-> 0, end |-> MaxInstant]
  /\ editing_meal = Null
  /\ last = Blank

\* A populated table, with or without a local file left by a fallback write.
LoadInit ==
  /\ configured \in BOOLEAN
  /\ remote \in Tables
  /\ nextId = Len(remote) + 1
  /\ csv \in {NoFile, to_csv(<<AddedRow(Null, 0)>>)}
  /\ backup = NoFile
  /\ df = <<>>
  /\ range = [start |-> 0, end |-> MaxInstant]
  /\ editing_meal = Null
  /\ last = Blank

\* A populated table behind the History tab.
HistoryInit ==
  /\ configured = TRUE
  /\ remote \in MidnightTables
  /\ nextId = Len(remote) + 1
  /\ csv = NoFile
  /\ backup = NoFile
  /\ df = <<>>
  /\ range \in {[start |-> 0, end |-> MaxInstant], [start |-> 0, end |-> 1]}
  /\ editing_meal = Null
  /\ last = Blank

\* The frames calculate_daily_totals is given: rows of either meal, dated or not.
FrameRows ==
  { [ id |-> Null, datetime |-> 0, date |-> d, food_name |-> m.food_name,
      calories |-> m.calories, protein |-> p ] :
      d \in Days \cup {Null}, m \in {Oatmeal, ChickenSalad},
      p \in {Oatmeal.protein, ChickenSalad.protein} }

RECURSIVE FramesOfLen(_)
FramesOfLen(n) ==
  IF n = 0 THEN {<<>>}
  ELSE { Append(f, r) : f \in FramesOfLen(n - 1), r \in FrameRows }

Frames == UNION { FramesOfLen(n) : n \in 0..MaxRows }

\* A frame in hand, nothing stored.
TotalsInit ==
  /\ configured = TRUE
  /\ remote = <<>>
  /\ nextId = 1
  /\ csv = NoFile
  /\ backup = NoFile
  /\ df \in Frames
  /\ range = [start |-> 0, end |-> MaxInstant]
  /\ editing_meal = Null
  /\ last = Blank

\* The Log Entry tab and the full loads, from an empty installation.
Next ==
  \/ AddEntry
  \/ LoadData
  \/ LoadToday

Spec == Init /\ [][Next]_vars

\* The three loads over a populated installation.
LoadNext ==
  \/ LoadData
  \/ LoadToday
  \/ RenderHistory

LoadSpec == LoadInit /\ [][LoadNext]_vars

\* The bulk import and export over a populated installation.
BridgeNext ==
  \/ SyncCsv
  \/ ExportCsv

BridgeSpec == PopulatedInit /\ [][BridgeNext]_vars

\* The History tab, with another client of the table deleting and updating rows.
HistoryNext ==
  \/ RefreshClick
  \/ EditClick
  \/ CancelClick
  \/ SaveClick
  \/ DeleteClick
  \/ ClientUpdate
  \/ DeleteEntryCall

HistorySpec == HistoryInit /\ [][HistoryNext]_vars

\* The edit flow of the History tab alone: an entry is put in edit mode and saved,
\* with another client of the table updating rows.
EditNext ==
  \/ RefreshClick
  \/ EditClick
  \/ SaveClick
  \/ ClientUpdate

EditSpec == HistoryInit /\ [][EditNext]_vars

\* calculate_daily_totals over every frame.
TotalsNext == DailyTotals

TotalsSpec == TotalsInit /\ [][TotalsNext]_vars

\* Callers of SupabaseManager's three writes.
ApiNext ==
  \/ InsertEntryCall
  \/ UpdateEntryCall
  \/ DeleteEntryCall

ApiSpec == Init /\ [][ApiNext]_vars

\* ----------------------------------------------------------------- claims
DegradedSuccess == "Entry added successfully (saved to CSV as fallback)!"

\* C1: an "Add Entry" whose remote insert fails (no insert of the call succeeds)
\* ends with the new entry in the local file and degraded success reported.
C1_FallbackStoresInFile ==
  (last.op = "add" /\ last.failed /\ last.inserted = 0) =>
    /\ csv.exists
    /\ RowOfEntry(last.entry) \in RowSet(csv.rows)
    /\ DegradedSuccess \in last.msgs
    /\ ~last.raised

\* C2: of two successive fallback writes made while every remote call fails, the
\* second leaves the first one's entry in the local file.
C2_FallbackNeverDrops ==
  [][ (last.op = "add" /\ last.outage /\ last'.op = "add" /\ last'.outage)
        => RowOfEntry(last.entry) \in RowSet(csv'.rows) ]_vars

\* C3: a delete of an identifier that matches no stored record reports not-found:
\* delete_entry returns False and the History tab's delete shows no success.
C3_DeleteReportsNotFound ==
  /\ (last.op = "delete_entry" /\ ~last.found) => last.ret = 0
  /\ (last.op = "delete" /\ ~last.found /\ ~last.failed)
       => "Entry deleted from Supabase!" \notin last.msgs

\* C4: an update of an identifier that matches no stored record reports not-found
\* (update_entry returns None, the History tab's Save shows no success) and
\* leaves the stored records as they were.
C4_UpdateReportsNotFound ==
  [][ /\ (last'.op = "update_entry" /\ ~last'.found /\ ~last'.raised)
           => (last'.ret = Null /\ remote' = remote /\ csv' = csv)
      /\ (last'.op = "save" /\ ~last'.found /\ ~last'.failed)
           => ("Entry updated in Supabase!" \notin last'.msgs
               /\ remote' = remote /\ csv' = csv) ]_vars

\* C5: every stored row's date is the calendar date of its datetime.
C5_DateIsDateOfDatetime ==
  \A i \in 1..Len(remote) : remote[i].date = strftime_date(remote[i].datetime)

\* C6: a Save or an update_entry call rejected for an unparsable timestamp leaves
\* the remote table and the local file exactly as they were.
C6_RejectedUpdateMutatesNothing ==
  [][ (last'.op \in {"save_rejected", "update_entry"} /\ last'.unparsable)
        => (remote' = remote /\ csv' = csv) ]_vars

\* C6 witness: a Save was rejected over a table that holds records.
C6_Witness ==
  last.op = "save_rejected" /\ last.unparsable /\ Len(remote) > 0 /\ editing_meal # Null

\* C7: one "Add Entry" attempts the remote insert exactly once and writes the
\* local file at most once.
C7_OneAttemptEach ==
  (last.op = "add" /\ configured) => (last.inserts = 1 /\ last.writes <= 1)

\* C8: the count sync_csv_to_supabase returns is the number of file rows the call
\* inserted, and those are the first rows of the file, in file order.
C8_SyncCountsInserted ==
  last.op = "sync" =>
    /\ last.ret = last.inserted
    /\ last.inserted <= Len(remote)
    /\ \A i \in 1..last.inserted :
         EntryOfRow(remote[Len(remote) - last.inserted + i]) = EntryOfRow(last.result[i])

\* C9: when export_supabase_to_csv returns success, the file holds every record
\* of the remote table and nothing else.
C9_ExportHoldsEveryRecord ==
  (last.op = "export" /\ last.ret = 1) =>
    (backup.exists /\ backup.rows = OrderDesc(remote))

C11_LoadTodayIsFilteredLoad ==
  \A today \in Days, up \in BOOLEAN :
    { EntryOfRow(r) : r \in RowSet(load_today_data(remote, today, up)) }
      = { EntryOfRow(r) :
            r \in { x \in RowSet(load_data(remote, csv, up)) : x.date = today } }

\* C12: without a remote configuration no operation raises, an added entry is in
\* the local file, and each of the three loads returns the local file's entries
\* (all of them, today's, those of the selected dates).
C12_DegradesToLocalFile ==
  ~configured =>
    /\ ~last.raised
    /\ last.op = "add" => RowOfEntry(last.entry) \in RowSet(csv.rows)
    /\ last.op = "load_data" => last.result = csv.rows
    /\ last.op = "load_today" =>
         RowSet(last.result) = { r \in RowSet(csv.rows) : r.date = last.id }
    /\ \A rg \in Ranges :
         RowSet(Reload(remote, rg, FALSE))
           = { r \in RowSet(csv.rows) : /\ r.date >= strftime_date(rg.start)
                                        /\ r.date <= strftime_date(rg.end) }

\* C13: a Save with a parsable timestamp whose remote update fails (and whose
\* fallback gets no insert through) leaves the remote table and the local file
\* exactly as they were.
C13_FailedEditRetainsState ==
  [][ (last'.op = "save" /\ last'.failed /\ last'.inserted = 0)
        => (remote' = remote /\ csv' = csv) ]_vars

\* The sum of column col over the rows of s.
RECURSIVE SumCol(_, _)
SumCol(s, col) == IF s = <<>> THEN 0 ELSE s[1][col] + SumCol(Tail(s), col)

\* C14: calculate_daily_totals returns a mapping with exactly one key per date
\* present in the input, whose calories and protein are the sums of those fields
\* over the entries of that date; an empty input yields an empty mapping.
C14_DailyTotalsAreSums ==
  last.op = "totals" =>
    /\ DOMAIN last.totals = { df[i].date : i \in 1..Len(df) } \ {Null}
    /\ \A k \in DOMAIN last.totals :
         LET rows == SelectRows(df, { r \in RowSet(df) : r.date = k })
         IN /\ last.totals[k].calories = SumCol(rows, "calories")
            /\ last.totals[k].protein = SumCol(rows, "protein")
    /\ df = <<>> => DOMAIN last.totals = {}

\* C14 witness: the totals of a frame with two entries of one date and different
\* meals.
C14_Witness ==
  /\ last.op = "totals" /\ Len(df) >= 2
  /\ df[1].date \in Days /\ df[2].date = df[1].date
  /\ df[1].calories # df[2].calories
  /\ last.totals[df[1].date].calories = df[1].calories + df[2].calories

\* C15: after a History load that reached the table, the filtered history (the
\* date-range load followed by the mask on the timestamp) holds exactly the stored
\* entries with start <= timestamp <= end, the two bounds included.
C15_HistoryFilterInclusive ==
  (last.op = "load_history" /\ configured /\ ~last.failed) =>
    RowSet(filtered_df(last.result, range))
      = { r \in RowSet(remote) : r.datetime >= range.start /\ r.datetime <= range.end }

\* C15 witness: a range that starts inside a day, with an entry at each bound in
\* the filtered history.
C15_Witness ==
  /\ last.op = "load_history" /\ configured /\ ~last.failed
  /\ range.start < range.end
  /\ range.start # to_datetime_date(strftime_date(range.start))
  /\ \E r1, r2 \in RowSet(filtered_df(last.result, range)) :
       r1.datetime = range.start /\ r2.datetime = range.end

\* Table tbl already holds frame row r: a row that has an id by that id, a row
\* that has none by its fields.
Contains(tbl, r) ==
  IF r.id # Null THEN HasId(tbl, r.id)
  ELSE \E i \in 1..Len(tbl) : EntryOfRow(tbl[i]) = EntryOfRow(r)

\* C16: a save_data call whose remote calls all succeed inserts exactly the rows
\* of its frame that the remote table did not already contain.
C16_SaveDataInsertsOnlyNew ==
  [][ (last'.op \in {"add", "save", "delete"} /\ last'.failed /\ last'.reachable)
        => /\ Len(remote') = Len(remote) + last'.inserted
           /\ { EntryOfRow(remote'[i]) : i \in (Len(remote) + 1)..Len(remote') }
                = { EntryOfRow(r) :
                      r \in { x \in RowSet(last'.saved) : ~Contains(remote, x) } } ]_vars

\* C17: editing_meal is always None or the index of a displayed row; while it is
\* set, the delete button removes nothing from either store; Cancel and a Save
\* with a parsable timestamp reset it, a rejected Save leaves it set.
C17_NoDeleteWhileEditing ==
  [][ /\ editing_meal' = Null \/ editing_meal' \in Displayed(df', range')
      /\ (editing_meal # Null /\ last'.op \in {"delete", "delete_blocked"})
           => (remote' = remote /\ csv' = csv)
      /\ last'.op \in {"cancel", "save"} => editing_meal' = Null
      /\ last'.op = "save_rejected"
           => (editing_meal' = editing_meal /\ editing_meal' # Null) ]_vars
====
